---- MODULE Spec2Model ----
(***************************************************************************)
(* Wallet ledger reconciliation of Sia: Wallet.applyDiff and               *)
(* Wallet.ReceiveTransactionPoolUpdate, modelled statement by statement.   *)
(* A call holds w.mu from its first statement to its deferred Unlock; each *)
(* applyDiff, the replacement of w.unconfirmedDiffs, the age update and    *)
(* notifySubscribers are separate steps.                                   *)
(***************************************************************************)
EXTENDS Integers, Sequences, FiniteSets, TLC

\* ---------------------------------------------------------------- bounds
MaxConfirmed == 1
MaxUnconfirmed == 2
MaxBlocks == 1
MaxCalls == 2

\* ------------------------------------------------------------ input sets
Procs == {1, 2}
SeqProcs == {1}
OwnAddr == "A"
ForeignAddr == "B"
Addrs == {OwnAddr, ForeignAddr}
Ids == {1, 2}
Values == {10}

\* modules.DiffApply / modules.DiffRevert
DiffApply == TRUE
DiffRevert == FALSE

\* modules.SiacoinOutputDiff values fed to the wallet
AllDiffs ==
  {[ID |-> i, Direction |-> d, SiacoinOutput |-> [Value |-> v, UnlockHash |-> h]] :
     i \in Ids, d \in BOOLEAN, v \in Values, h \in Addrs}

\* Diffs for outputs of the wallet's address, and with those of another wallet
OwnDiffs == {d \in AllDiffs : d.SiacoinOutput.UnlockHash = OwnAddr}
MixedDiffs == OwnDiffs \cup {d \in AllDiffs : d.ID = 1 /\ d.Direction = DiffApply}

SeqsUpTo(S, n) == UNION {[1..k -> S] : k \in 0..n}

\* ------------------------------------------------------------ state
VARIABLES
  keys,              \* w.keys: address -> (output id -> knownOutput)
  unconfirmedDiffs,  \* w.unconfirmedDiffs
  age,               \* w.age
  mu,                \* w.mu: 0 when free, else the holder
  DEBUG,             \* build.DEBUG
  notified,          \* number of notifySubscribers calls made so far
  pc,                \* per caller: position in ReceiveTransactionPoolUpdate
  idx,               \* per caller: index of the range loop it is in
  cc,                \* per caller: argument cc
  unconfirmedSiacoinDiffs,  \* per caller: argument unconfirmedSiacoinDiffs
  panicked,          \* per caller: the panic being propagated, if any
  pre,               \* history: wallet fields when the caller took the lock
  trace,             \* history: the steps the caller's current call has done
  hist,              \* history: the last two finished calls, oldest first
  confirmedSet,      \* history: outputs unspent by the confirmed diffs so far
  base,              \* history: w.keys when the last confirm pass ended
  ncalls,            \* history: number of calls made
  net,               \* history: applied minus reverted blocks of returned calls
  env                \* the callers: the diffs and block counts they pass

vars == <<keys, unconfirmedDiffs, age, mu, DEBUG, notified, pc, idx, cc,
          unconfirmedSiacoinDiffs, panicked, pre, trace, hist, confirmedSet,
          base, ncalls, net, env>>

NoPanic == "none"
PanicAssert == "trying to delete an output that doesn't exist?"
PanicNil == "nil pointer dereference"

NoOutputs == [i \in {} |-> i]

\* ------------------------------------------------------------ applyDiff
\* &knownOutput{id, output, spendable: true, age: 0}
KnownOutput(scod) ==
  [id |-> scod.ID, output |-> scod.SiacoinOutput, spendable |-> TRUE, age |-> 0]

\* key.outputs[id] = ko
Insert(outputs, id, ko) ==
  [i \in DOMAIN outputs \cup {id} |-> IF i = id THEN ko ELSE outputs[i]]

ApplyMatchingToggle(outputs, scod) ==
  IF scod.ID \in DOMAIN outputs
  THEN [outputs EXCEPT ![scod.ID].spendable = ~@]
  ELSE Insert(outputs, scod.ID, KnownOutput(scod))

\* A matching diff that always stores a fresh entry
ApplyMatchingOverwrite(outputs, scod) ==
  Insert(outputs, scod.ID, KnownOutput(scod))

\* A matching diff that leaves an existing entry as it is
ApplyMatchingNoReactivate(outputs, scod) ==
  IF scod.ID \in DOMAIN outputs THEN outputs
  ELSE Insert(outputs, scod.ID, KnownOutput(scod))

\* The branch scod.Direction == dir
ApplyMatching(outputs, scod) ==
  IF scod.ID \in DOMAIN outputs
  THEN [outputs EXCEPT ![scod.ID].spendable = TRUE]
  ELSE Insert(outputs, scod.ID, KnownOutput(scod))

\* An opposite diff that deletes the entry
ApplyOppositeDelete(outputs, scod) ==
  [i \in DOMAIN outputs \ {scod.ID} |-> outputs[i]]

\* The branch scod.Direction != dir, entry present
ApplyOpposite(outputs, scod) ==
  [outputs EXCEPT ![scod.ID].spendable = FALSE]

\* A debug build that lets the missing entry pass
MissingPanicLenient(debug) == IF debug THEN NoPanic ELSE PanicNil

\* The panic of the branch scod.Direction != dir when the entry is missing:
\* the assertion under build.DEBUG, else the write through the nil pointer
\* that the map lookup returns.
MissingPanic(debug) == IF debug THEN PanicAssert ELSE PanicNil

\* applyDiff that adopts an unknown address as a key of its own
ApplyDiffAdopting(ks, scod, dir, debug) ==
  LET h == scod.SiacoinOutput.UnlockHash
      ks2 == [a \in DOMAIN ks \cup {h} |-> IF a \in DOMAIN ks THEN ks[a] ELSE NoOutputs]
  IN IF scod.Direction = dir
     THEN [keys |-> [ks2 EXCEPT ![h] = ApplyMatching(ks2[h], scod)],
           panic |-> NoPanic]
     ELSE IF scod.ID \notin DOMAIN ks2[h]
          THEN [keys |-> ks2, panic |-> MissingPanic(debug)]
          ELSE [keys |-> [ks2 EXCEPT ![h] = ApplyOpposite(ks2[h], scod)],
                panic |-> NoPanic]

ApplyDiff(ks, scod, dir, debug) ==
  LET h == scod.SiacoinOutput.UnlockHash IN
  IF h \notin DOMAIN ks
  THEN [keys |-> ks, panic |-> NoPanic]
  ELSE IF scod.Direction = dir
       THEN [keys |-> [ks EXCEPT ![h] = ApplyMatching(ks[h], scod)],
             panic |-> NoPanic]
       ELSE IF scod.ID \notin DOMAIN ks[h]
            THEN [keys |-> ks, panic |-> MissingPanic(debug)]
            ELSE [keys |-> [ks EXCEPT ![h] = ApplyOpposite(ks[h], scod)],
                  panic |-> NoPanic]

\* ------------------------------------------------ ReceiveTransactionPoolUpdate
NoCC == [SiacoinOutputDiffs |-> <<>>, RevertedBlocks |-> 0, AppliedBlocks |-> 0]
NoPre ==
  [keys |-> [a \in {} |-> a], unconfirmedDiffs |-> <<>>, age |-> 0,
   base |-> [a \in {} |-> a], notified |-> 0]

CCs(e) ==
  {[SiacoinOutputDiffs |-> c, RevertedBlocks |-> r, AppliedBlocks |-> a] :
     c \in SeqsUpTo(e.diffs, MaxConfirmed), r \in 0..e.blocks, a \in 0..e.blocks}

\* A call that leaves out its confirm pass
AtConfirmSkipped(i, c) == [pc |-> "replace", idx |-> 0]

\* Where control goes when a range loop is entered or continued at index i,
\* skipping loops that have nothing left.
AtConfirm(i, c) ==
  IF i <= Len(c.SiacoinOutputDiffs) THEN [pc |-> "confirm", idx |-> i]
  ELSE [pc |-> "replace", idx |-> 0]

AtUnwindSkipped(i, pending, c) == AtConfirm(1, c)

AtUnwind(i, pending, c) ==
  IF i <= Len(pending) THEN [pc |-> "unwind", idx |-> i]
  ELSE AtConfirm(1, c)

AtOverlay(i, pending) ==
  IF i <= Len(pending) THEN [pc |-> "overlay", idx |-> i]
  ELSE [pc |-> "age", idx |-> 0]

Goto(p, at) ==
  /\ pc' = [pc EXCEPT ![p] = at.pc]
  /\ idx' = [idx EXCEPT ![p] = at.idx]

Log(p, e) == trace' = [trace EXCEPT ![p] = Append(@, e)]

\* Reference meaning of a diff on the set of unspent outputs of the wallet
RefApply(S, ks, d) ==
  LET h == d.SiacoinOutput.UnlockHash IN
  IF h \notin DOMAIN ks THEN S
  ELSE IF d.Direction = DiffApply THEN S \cup {<<h, d.ID>>}
       ELSE S \ {<<h, d.ID>>}

\* id := w.mu.Lock(), with the arguments c and u of the call
Begin(p, c, u) ==
  /\ mu = 0
  /\ mu' = p
  /\ cc' = [cc EXCEPT ![p] = c]
  /\ unconfirmedSiacoinDiffs' = [unconfirmedSiacoinDiffs EXCEPT ![p] = u]
  /\ pre' = [pre EXCEPT ![p] =
       [keys |-> keys, unconfirmedDiffs |-> unconfirmedDiffs, age |-> age,
        base |-> base, notified |-> notified]]
  /\ trace' = [trace EXCEPT ![p] = <<>>]
  /\ ncalls' = ncalls + 1
  /\ Goto(p, AtUnwind(1, unconfirmedDiffs, c))
  /\ UNCHANGED <<keys, unconfirmedDiffs, age, DEBUG, notified, panicked, hist,
                 confirmedSet, base, net, env>>

\* A caller invokes ReceiveTransactionPoolUpdate and acquires the lock
ReceiveTransactionPoolUpdate(p) ==
  /\ pc[p] = "idle"
  /\ ncalls < MaxCalls
  /\ \E c \in CCs(env), u \in SeqsUpTo(env.diffs, MaxUnconfirmed) : Begin(p, c, u)

\* An applyDiff step whose panic puts the ledger back as the call found it
ApplyStepRollingBack(p, scod, dir, next) ==
  LET r == ApplyDiff(keys, scod, dir, DEBUG) IN
  /\ keys' = IF r.panic = NoPanic THEN r.keys ELSE pre[p].keys
  /\ Log(p, [step |-> IF dir = DiffApply THEN "apply" ELSE "revert", diff |-> scod])
  /\ IF r.panic = NoPanic
     THEN Goto(p, next) /\ UNCHANGED panicked
     ELSE /\ Goto(p, [pc |-> "panic", idx |-> 0])
          /\ panicked' = [panicked EXCEPT ![p] = r.panic]

\* One applyDiff of a pass: the new ledger, or the panic leaving it as it is
ApplyStep(p, scod, dir, next) ==
  LET r == ApplyDiff(keys, scod, dir, DEBUG) IN
  /\ keys' = r.keys
  /\ Log(p, [step |-> IF dir = DiffApply THEN "apply" ELSE "revert", diff |-> scod])
  /\ IF r.panic = NoPanic
     THEN Goto(p, next) /\ UNCHANGED panicked
     ELSE /\ Goto(p, [pc |-> "panic", idx |-> 0])
          /\ panicked' = [panicked EXCEPT ![p] = r.panic]

\* for _, diff := range w.unconfirmedDiffs { w.applyDiff(diff, DiffRevert) }
Unwind(p) ==
  /\ pc[p] = "unwind"
  /\ ApplyStep(p, unconfirmedDiffs[idx[p]], DiffRevert,
               AtUnwind(idx[p] + 1, unconfirmedDiffs, cc[p]))
  /\ UNCHANGED <<unconfirmedDiffs, age, mu, DEBUG, notified, cc,
                 unconfirmedSiacoinDiffs, pre, hist, confirmedSet, base, ncalls, net, env>>

\* for _, scod := range cc.SiacoinOutputDiffs { w.applyDiff(scod, DiffApply) }
Confirm(p) ==
  /\ pc[p] = "confirm"
  /\ ApplyStep(p, cc[p].SiacoinOutputDiffs[idx[p]], DiffApply,
               AtConfirm(idx[p] + 1, cc[p]))
  /\ confirmedSet' = RefApply(confirmedSet, keys, cc[p].SiacoinOutputDiffs[idx[p]])
  /\ UNCHANGED <<unconfirmedDiffs, age, mu, DEBUG, notified, cc,
                 unconfirmedSiacoinDiffs, pre, hist, base, ncalls, net, env>>

NewPendingMerged(old, u) == old \o u

\* w.unconfirmedDiffs = unconfirmedSiacoinDiffs
NewPending(old, u) == u

Replace(p) ==
  /\ pc[p] = "replace"
  /\ unconfirmedDiffs' = NewPending(unconfirmedDiffs, unconfirmedSiacoinDiffs[p])
  /\ base' = keys
  /\ Log(p, [step |-> "replace", diff |-> <<>>])
  /\ Goto(p, AtOverlay(1, unconfirmedDiffs'))
  /\ UNCHANGED <<keys, age, mu, DEBUG, notified, cc, unconfirmedSiacoinDiffs,
                 panicked, pre, hist, confirmedSet, ncalls, net, env>>

\* for _, diff := range w.unconfirmedDiffs { w.applyDiff(diff, DiffApply) }
Overlay(p) ==
  /\ pc[p] = "overlay"
  /\ ApplyStep(p, unconfirmedDiffs[idx[p]], DiffApply,
               AtOverlay(idx[p] + 1, unconfirmedDiffs))
  /\ UNCHANGED <<unconfirmedDiffs, age, mu, DEBUG, notified, cc,
                 unconfirmedSiacoinDiffs, pre, hist, confirmedSet, base, ncalls, net, env>>

NewAgeSkipEmpty(a, c) ==
  IF Len(c.SiacoinOutputDiffs) = 0 THEN a
  ELSE (a - c.RevertedBlocks) + c.AppliedBlocks

NewAgeSwapped(a, c) == (a + c.RevertedBlocks) - c.AppliedBlocks

\* w.age -= len(cc.RevertedBlocks); w.age += len(cc.AppliedBlocks)
NewAge(a, c) == (a - c.RevertedBlocks) + c.AppliedBlocks

AdjustAge(p) ==
  /\ pc[p] = "age"
  /\ age' = NewAge(age, cc[p])
  /\ Log(p, [step |-> "age", diff |-> <<>>])
  /\ Goto(p, [pc |-> "notify", idx |-> 0])
  /\ UNCHANGED <<keys, unconfirmedDiffs, mu, DEBUG, notified, cc,
                 unconfirmedSiacoinDiffs, panicked, pre, hist, confirmedSet,
                 base, ncalls, net, env>>

NotifiedTwice(n) == n + 2

\* w.notifySubscribers()
Notified(n) == n + 1

Notify(p) ==
  /\ pc[p] = "notify"
  /\ notified' = Notified(notified)
  /\ Log(p, [step |-> "notify", diff |-> <<>>])
  /\ Goto(p, [pc |-> "unlock", idx |-> 0])
  /\ UNCHANGED <<keys, unconfirmedDiffs, age, mu, DEBUG, cc,
                 unconfirmedSiacoinDiffs, panicked, pre, hist, confirmedSet,
                 base, ncalls, net, env>>

\* The record of a finished call
CallRecord(p) ==
  [cc |-> cc[p], u |-> unconfirmedSiacoinDiffs[p], pre |-> pre[p],
   panic |-> panicked[p]]

Remember(h, r) == IF Len(h) < 2 THEN Append(h, r) ELSE <<h[2], r>>

\* A return that leaves the lock held
UnlockHolding(p) ==
  /\ pc[p] \in {"unlock", "panic"}
  /\ mu' = mu
  /\ hist' = IF env.hist THEN Remember(hist, CallRecord(p)) ELSE hist
  /\ pc' = [pc EXCEPT ![p] = "idle"]
  /\ cc' = [cc EXCEPT ![p] = NoCC]
  /\ unconfirmedSiacoinDiffs' = [unconfirmedSiacoinDiffs EXCEPT ![p] = <<>>]
  /\ panicked' = [panicked EXCEPT ![p] = NoPanic]
  /\ pre' = [pre EXCEPT ![p] = NoPre]
  /\ trace' = [trace EXCEPT ![p] = <<>>]
  /\ net' = IF pc[p] = "unlock"
            THEN net + cc[p].AppliedBlocks - cc[p].RevertedBlocks
            ELSE net
  /\ UNCHANGED <<keys, unconfirmedDiffs, age, DEBUG, notified, idx,
                 confirmedSet, base, ncalls, env>>

\* defer w.mu.Unlock(id): runs when the call returns and when it panics
Unlock(p) ==
  /\ pc[p] \in {"unlock", "panic"}
  /\ mu' = 0
  /\ hist' = IF env.hist THEN Remember(hist, CallRecord(p)) ELSE hist
  /\ pc' = [pc EXCEPT ![p] = "idle"]
  /\ cc' = [cc EXCEPT ![p] = NoCC]
  /\ unconfirmedSiacoinDiffs' = [unconfirmedSiacoinDiffs EXCEPT ![p] = <<>>]
  /\ panicked' = [panicked EXCEPT ![p] = NoPanic]
  /\ pre' = [pre EXCEPT ![p] = NoPre]
  /\ trace' = [trace EXCEPT ![p] = <<>>]
  /\ net' = IF pc[p] = "unlock"
            THEN net + cc[p].AppliedBlocks - cc[p].RevertedBlocks
            ELSE net
  /\ UNCHANGED <<keys, unconfirmedDiffs, age, DEBUG, notified, idx,
                 confirmedSet, base, ncalls, env>>

\* The wallet after construction with one key and no outputs, and callers e
InitWallet(e) ==
  /\ keys = [a \in {OwnAddr} |-> NoOutputs]
  /\ unconfirmedDiffs = <<>>
  /\ age = 0
  /\ mu = 0
  /\ DEBUG \in BOOLEAN
  /\ notified = 0
  /\ pc = [p \in Procs |-> "idle"]
  /\ idx = [p \in Procs |-> 0]
  /\ cc = [p \in Procs |-> NoCC]
  /\ unconfirmedSiacoinDiffs = [p \in Procs |-> <<>>]
  /\ panicked = [p \in Procs |-> NoPanic]
  /\ pre = [p \in Procs |-> NoPre]
  /\ trace = [p \in Procs |-> <<>>]
  /\ hist = <<>>
  /\ confirmedSet = {}
  /\ base = [a \in {OwnAddr} |-> NoOutputs]
  /\ ncalls = 0
  /\ net = 0
  /\ env = e

\* Callers passing diffs of this and of another wallet, and block counts
Init == InitWallet([diffs |-> MixedDiffs, blocks |-> MaxBlocks, hist |-> FALSE])

\* Callers passing diffs of this wallet with no block applied or reverted;
\* the last two finished calls are remembered
InitPairs == InitWallet([diffs |-> OwnDiffs, blocks |-> 0, hist |-> TRUE])

Next ==
  \E p \in SeqProcs :
    \/ ReceiveTransactionPoolUpdate(p)
    \/ Unwind(p)
    \/ Confirm(p)
    \/ Replace(p)
    \/ Overlay(p)
    \/ AdjustAge(p)
    \/ Notify(p)
    \/ Unlock(p)

Spec == Init /\ [][Next]_vars

\* ------------------------------------------------ applyDiff on its own
\* The ledgers the wallet's key can hold: any outputs, spendable or not
Ledgers ==
  UNION {{[i \in S |->
             [id |-> i, output |-> [Value |-> g[i][1], UnlockHash |-> OwnAddr],
              spendable |-> g[i][2], age |-> 0]] :
            g \in [S -> Values \X BOOLEAN]} : S \in SUBSET Ids}

\* Up to two applyDiff calls in a row, on any diff in any direction
ApplyOne(p) ==
  /\ pc[p] = "applyDiff"
  /\ Len(trace[p]) < 2
  /\ \E scod \in AllDiffs, dir \in BOOLEAN :
       LET r == ApplyDiff(keys, scod, dir, DEBUG) IN
       /\ keys' = r.keys
       /\ Log(p, [step |-> IF dir = DiffApply THEN "apply" ELSE "revert",
                  diff |-> scod])
       /\ panicked' = [panicked EXCEPT ![p] = r.panic]
       /\ pc' = [pc EXCEPT ![p] = IF r.panic = NoPanic THEN @ ELSE "panic"]
  /\ base' = keys
  /\ pre' = IF trace[p] = <<>>
            THEN [pre EXCEPT ![p] =
                    [keys |-> keys, unconfirmedDiffs |-> unconfirmedDiffs,
                     age |-> age, base |-> base, notified |-> notified]]
            ELSE pre
  /\ UNCHANGED <<unconfirmedDiffs, age, mu, DEBUG, notified, idx, cc,
                 unconfirmedSiacoinDiffs, hist, confirmedSet, ncalls, net, env>>

InitApply ==
  /\ keys \in {[a \in {OwnAddr} |-> l] : l \in Ledgers}
  /\ unconfirmedDiffs = <<>>
  /\ age = 0
  /\ mu = 0
  /\ DEBUG \in BOOLEAN
  /\ notified = 0
  /\ pc = [p \in Procs |-> IF p \in SeqProcs THEN "applyDiff" ELSE "idle"]
  /\ idx = [p \in Procs |-> 0]
  /\ cc = [p \in Procs |-> NoCC]
  /\ unconfirmedSiacoinDiffs = [p \in Procs |-> <<>>]
  /\ panicked = [p \in Procs |-> NoPanic]
  /\ pre = [p \in Procs |-> NoPre]
  /\ trace = [p \in Procs |-> <<>>]
  /\ hist = <<>>
  /\ confirmedSet = {}
  /\ base = keys
  /\ ncalls = 0
  /\ net = 0
  /\ env = [diffs |-> AllDiffs, blocks |-> 0, hist |-> FALSE]

NextApply == \E p \in SeqProcs : ApplyOne(p)

SpecApply == InitApply /\ [][NextApply]_vars

SpecPairs == InitPairs /\ [][Next]_vars

\* ------------------------------------------------ concurrent callers
\* Diffs for one output of the wallet's address
SingleDiffs == {d \in OwnDiffs : d.ID = 1}

\* Callers passing diffs for one output, and block counts; the last two
\* finished calls are remembered
InitSingle == InitWallet([diffs |-> SingleDiffs, blocks |-> MaxBlocks, hist |-> TRUE])

\* Sequential callers of one output's diffs
SpecSingle == InitSingle /\ [][Next]_vars

\* Diffs for one output of the wallet's address that differ in their payload
Payloads == {10, 20}
PayloadDiffs ==
  {[ID |-> 1, Direction |-> d, SiacoinOutput |-> [Value |-> v, UnlockHash |-> OwnAddr]] :
     d \in BOOLEAN, v \in Payloads}

\* Callers passing diffs that name one output with different payloads
InitPayload == InitWallet([diffs |-> PayloadDiffs, blocks |-> 0, hist |-> FALSE])

SpecPayload == InitPayload /\ [][Next]_vars

\* Calls invoked and still waiting for the lock
Waiting == {q \in Procs : pc[q] = "lock"}

\* A goroutine invokes ReceiveTransactionPoolUpdate(c, _, u) and reaches
\* w.mu.Lock()
Call(p) ==
  /\ pc[p] = "idle"
  /\ ncalls + Cardinality(Waiting) < MaxCalls
  /\ \E c \in CCs(env), u \in SeqsUpTo(env.diffs, MaxUnconfirmed) :
       /\ cc' = [cc EXCEPT ![p] = c]
       /\ unconfirmedSiacoinDiffs' = [unconfirmedSiacoinDiffs EXCEPT ![p] = u]
  /\ pc' = [pc EXCEPT ![p] = "lock"]
  /\ UNCHANGED <<keys, unconfirmedDiffs, age, mu, DEBUG, notified, idx, panicked,
                 pre, trace, hist, confirmedSet, base, ncalls, net, env>>

\* A lock that lets a second caller in while it is held
LockBarging(p) ==
  /\ pc[p] = "lock"
  /\ mu' = p
  /\ pre' = [pre EXCEPT ![p] =
       [keys |-> keys, unconfirmedDiffs |-> unconfirmedDiffs, age |-> age,
        base |-> base, notified |-> notified]]
  /\ trace' = [trace EXCEPT ![p] = <<>>]
  /\ ncalls' = ncalls + 1
  /\ Goto(p, AtUnwind(1, unconfirmedDiffs, cc[p]))
  /\ UNCHANGED <<keys, unconfirmedDiffs, age, DEBUG, notified, panicked, hist,
                 confirmedSet, base, net, env, cc, unconfirmedSiacoinDiffs>>

\* w.mu.Lock() returns: the waiting call gets the lock once it is free
Lock(p) ==
  /\ pc[p] = "lock"
  /\ Begin(p, cc[p], unconfirmedSiacoinDiffs[p])

\* The steps of one goroutine
Step(p) ==
  \/ Call(p)
  \/ Lock(p)
  \/ Unwind(p)
  \/ Confirm(p)
  \/ Replace(p)
  \/ Overlay(p)
  \/ AdjustAge(p)
  \/ Notify(p)
  \/ Unlock(p)

NextConc == \E p \in Procs : Step(p)

\* Goroutines calling the wallet concurrently, in any interleaving
SpecConc == InitSingle /\ [][NextConc]_vars

\* The statements of a call after w.mu.Lock() has returned
Body(p) ==
  \/ Unwind(p)
  \/ Confirm(p)
  \/ Replace(p)
  \/ Overlay(p)
  \/ AdjustAge(p)
  \/ Notify(p)
  \/ Unlock(p)

\* A goroutine that can run is run, and a goroutine blocked in w.mu.Lock()
\* gets the lock if it is free again and again
Fairness == \A p \in Procs : WF_vars(Body(p)) /\ SF_vars(Lock(p))

\* Concurrent callers passing diffs for one output and no block counts
InitLive == InitWallet([diffs |-> SingleDiffs, blocks |-> 0, hist |-> FALSE])

SpecLive == InitLive /\ [][NextConc]_vars /\ Fairness

TypeOK ==
  /\ DOMAIN keys = {OwnAddr}
  /\ \A a \in DOMAIN keys : DOMAIN keys[a] \subseteq Ids
  /\ mu \in {0} \cup Procs
  /\ ncalls \in 0..MaxCalls

\* ------------------------------------------------------------ helpers
\* The spendable flag of output i at address h; an output with no entry is
\* not spendable
Spendable(ks, h, i) ==
  /\ h \in DOMAIN ks
  /\ i \in DOMAIN ks[h]
  /\ ks[h][i].spendable

\* A range loop of applyDiff calls over diffs in direction dir, from index i;
\* a panic ends it
RECURSIVE ApplyAll(_, _, _, _, _)
ApplyAll(ks, diffs, i, dir, debug) ==
  IF i > Len(diffs) THEN [keys |-> ks, panic |-> NoPanic]
  ELSE LET r == ApplyDiff(ks, diffs[i], dir, debug) IN
       IF r.panic # NoPanic THEN r
       ELSE ApplyAll(r.keys, diffs, i + 1, dir, debug)

\* The unspent outputs after the diffs, in order, by their reference meaning
RECURSIVE RefApplyAll(_, _, _, _)
RefApplyAll(S, ks, diffs, i) ==
  IF i > Len(diffs) THEN S
  ELSE RefApplyAll(RefApply(S, ks, diffs[i]), ks, diffs, i + 1)

\* Diffs of the list that name output i of the wallet's address
Mentions(diffs, i) ==
  \E k \in 1..Len(diffs) :
    diffs[k].ID = i /\ diffs[k].SiacoinOutput.UnlockHash = OwnAddr

\* No call is running and every call made so far returned normally
AllReturned == mu = 0 /\ ncalls > 0 /\ notified = ncalls

\* ------------------------------------------------------------ C1
\* C1: after every completed call, an output of the wallet's address is
\* spendable exactly when it is unspent after all confirmed diffs delivered
\* so far followed by the current w.unconfirmedDiffs; earlier pending sets
\* leave no trace.
C1_LedgerIsConfirmedPlusPending ==
  AllReturned =>
    \A i \in Ids :
      Spendable(keys, OwnAddr, i) <=>
        <<OwnAddr, i>> \in RefApplyAll(confirmedSet, keys, unconfirmedDiffs, 1)

\* ------------------------------------------------------------ C3
\* The caller has finished the unwind loop and applied no confirmed diff yet
Unwound(p) ==
  /\ mu = p
  /\ \/ pc[p] = "confirm" /\ idx[p] = 1
     \/ pc[p] = "replace" /\ Len(cc[p].SiacoinOutputDiffs) = 0

\* C3: after the unwind loop and before any confirmed diff is applied, every
\* spendable flag is what it was before the previous pending set was applied
\* (every earlier call having returned normally).
C3_UnwindRestoresConfirmedOnly ==
  \A p \in Procs :
    (Unwound(p) /\ pre[p].notified = ncalls - 1) =>
      \A i \in Ids :
        Spendable(keys, OwnAddr, i) <=> Spendable(pre[p].base, OwnAddr, i)

\* ------------------------------------------------------------ C2
\* The last two finished calls were reconcile(C, 0, 0, U) on a wallet with
\* no pending diffs, then reconcile({}, 0, 0, U'), and both returned
FullCycle ==
  /\ mu = 0
  /\ Len(hist) = 2
  /\ hist[1].panic = NoPanic /\ hist[2].panic = NoPanic
  /\ hist[1].cc.RevertedBlocks = 0 /\ hist[1].cc.AppliedBlocks = 0
  /\ hist[1].pre.unconfirmedDiffs = <<>>
  /\ hist[2].cc = NoCC

\* Applying C forward and then U' forward to the ledger ks
Notional(ks, C, U2) ==
  LET a == ApplyAll(ks, C, 1, DiffApply, DEBUG) IN
  IF a.panic # NoPanic THEN a ELSE ApplyAll(a.keys, U2, 1, DiffApply, DEBUG)

\* C2: reconcile(C, 0, 0, U) then reconcile({}, 0, 0, U') ends with the
\* spendable flags, pending set and age of applying C and then U' to the
\* starting ledger.
C2_FullCycleEquivalence ==
  FullCycle =>
    LET n == Notional(hist[1].pre.keys, hist[1].cc.SiacoinOutputDiffs, hist[2].u) IN
    n.panic = NoPanic =>
      /\ \A i \in Ids : Spendable(keys, OwnAddr, i) <=> Spendable(n.keys, OwnAddr, i)
      /\ unconfirmedDiffs = hist[2].u
      /\ age = hist[1].pre.age

\* ------------------------------------------------------------ C4
\* The applyDiff calls made so far were (d, DiffApply) then (d, DiffRevert)
\* for a diff d of the wallet's address whose entry existed beforehand
AppliedThenReverted(p) ==
  /\ pc[p] = "applyDiff"
  /\ Len(trace[p]) = 2
  /\ trace[p][1].diff = trace[p][2].diff
  /\ trace[p][1].step = "apply" /\ trace[p][2].step = "revert"
  /\ trace[p][1].diff.SiacoinOutput.UnlockHash = OwnAddr
  /\ trace[p][1].diff.ID \in DOMAIN pre[p].keys[OwnAddr]

\* C4: applyDiff(d, DiffApply) then applyDiff(d, DiffRevert) restores the
\* spendable flag of d's entry and leaves the set of entries unchanged.
C4_ApplyThenRevertRestores ==
  \A p \in Procs :
    AppliedThenReverted(p) =>
      LET i == trace[p][1].diff.ID IN
      /\ keys[OwnAddr][i].spendable = pre[p].keys[OwnAddr][i].spendable
      /\ DOMAIN keys[OwnAddr] = DOMAIN pre[p].keys[OwnAddr]

\* ------------------------------------------------------------ C5
\* The direction an applyDiff call of the trace was made with
DirOf(e) == e.step = "apply"

\* Every applyDiff call so far was for the same diff d of the wallet's
\* address, in the direction d.Direction
SameMatching(p) ==
  /\ Len(trace[p]) >= 1
  /\ \A k \in 1..Len(trace[p]) :
       /\ trace[p][k].diff = trace[p][1].diff
       /\ DirOf(trace[p][k]) = trace[p][1].diff.Direction
  /\ trace[p][1].diff.SiacoinOutput.UnlockHash = OwnAddr

\* C5: applyDiff(d, dir) with d.Direction = dir, once or twice, does not
\* panic and leaves exactly one entry for d.ID, spendable, age 0, the other
\* entries as they were; the second call changes nothing.
C5_MatchingApplyIdempotent ==
  \A p \in SeqProcs :
    SameMatching(p) =>
      LET d == trace[p][1].diff IN
      /\ panicked[p] = NoPanic
      /\ DOMAIN keys[OwnAddr] = DOMAIN pre[p].keys[OwnAddr] \cup {d.ID}
      /\ keys[OwnAddr][d.ID].spendable
      /\ keys[OwnAddr][d.ID].age = 0
      /\ keys[OwnAddr][d.ID].id = d.ID
      /\ \A j \in DOMAIN pre[p].keys[OwnAddr] \ {d.ID} :
           keys[OwnAddr][j] = pre[p].keys[OwnAddr][j]
      /\ Len(trace[p]) = 2 => keys = base

\* Twice applied, both when the entry existed unspendable and when it did not
C5_Witness ==
  \E p \in SeqProcs :
    /\ SameMatching(p)
    /\ Len(trace[p]) = 2
    /\ trace[p][1].diff.ID = 1
    /\ 1 \in DOMAIN pre[p].keys[OwnAddr]
    /\ ~pre[p].keys[OwnAddr][1].spendable
    /\ keys[OwnAddr][1].spendable

\* ------------------------------------------------------------ C6
\* The last two finished calls had the same arguments with block counts
\* (0, 0), and the first of them returned
DeliveredTwice ==
  /\ mu = 0
  /\ Len(hist) = 2
  /\ hist[1].panic = NoPanic
  /\ hist[2].cc = hist[1].cc
  /\ hist[2].u = hist[1].u
  /\ hist[1].cc.RevertedBlocks = 0 /\ hist[1].cc.AppliedBlocks = 0

\* C6: delivering a completed call again changes no entry, no spendable flag
\* and not the pending set, and does not panic.
C6_DuplicateDeliveryIdempotent ==
  DeliveredTwice =>
    /\ hist[2].panic = NoPanic
    /\ keys = hist[2].pre.keys
    /\ unconfirmedDiffs = hist[2].pre.unconfirmedDiffs

\* Delivered twice with a confirmed diff and pending diffs for the same output
C6_Witness ==
  /\ DeliveredTwice
  /\ Len(hist[1].cc.SiacoinOutputDiffs) = 1
  /\ Len(hist[1].u) = 2
  /\ Mentions(hist[1].u, hist[1].cc.SiacoinOutputDiffs[1].ID)

\* ------------------------------------------------------------ C7
\* The caller has run every statement of the call and is about to return
Returning(p) == pc[p] = "unlock"

\* The last diff of the list that names output i of the wallet's address
\* makes it available
LastMentionCreates(diffs, i) ==
  \E k \in 1..Len(diffs) :
    /\ diffs[k].ID = i /\ diffs[k].SiacoinOutput.UnlockHash = OwnAddr
    /\ diffs[k].Direction = DiffApply
    /\ \A j \in (k + 1)..Len(diffs) :
         ~(diffs[j].ID = i /\ diffs[j].SiacoinOutput.UnlockHash = OwnAddr)

\* Output i was not spendable before the previous pending set was applied,
\* that set makes it available, and it was spendable when the call began
MadeSpendableByPending(p, i) ==
  /\ LastMentionCreates(pre[p].unconfirmedDiffs, i)
  /\ Spendable(pre[p].keys, OwnAddr, i)
  /\ ~Spendable(pre[p].base, OwnAddr, i)

\* C7: after a completed call w.unconfirmedDiffs is the call's argument, and
\* an output made spendable only by the previous pending set, named neither
\* by the new pending set nor by the confirmed diffs, is not spendable.
C7_PendingFullyReplaced ==
  \A p \in Procs :
    Returning(p) =>
      /\ unconfirmedDiffs = unconfirmedSiacoinDiffs[p]
      /\ \A i \in Ids :
           ( /\ MadeSpendableByPending(p, i)
             /\ ~Mentions(unconfirmedSiacoinDiffs[p], i)
             /\ ~Mentions(cc[p].SiacoinOutputDiffs, i) )
           => ~Spendable(keys, OwnAddr, i)

\* A pending create of output 2 followed by a call with no unconfirmed diffs
C7_Witness ==
  \E p \in Procs :
    /\ Returning(p)
    /\ MadeSpendableByPending(p, 2)
    /\ unconfirmedSiacoinDiffs[p] = <<>>
    /\ unconfirmedDiffs = <<>>
    /\ Len(pre[p].unconfirmedDiffs) > 0
    /\ ~Spendable(keys, OwnAddr, 2)

C9_AgeMonotoneWithoutReorg ==
  [][(\A p \in Procs : cc[p].RevertedBlocks = 0) => age' >= age]_vars

\* A call with applied blocks and no reverted block has raised w.age
C9_Witness ==
  \E p \in Procs :
    /\ pc[p] = "notify"
    /\ cc[p].RevertedBlocks = 0 /\ cc[p].AppliedBlocks > 0
    /\ age > pre[p].age

\* ------------------------------------------------------------ C10
\* notifySubscribers calls made by the caller's current call
NotifiedInCall(p) == notified - pre[p].notified

StepsOf(diffs, step) == [k \in 1..Len(diffs) |-> [step |-> step, diff |-> diffs[k]]]

\* The steps of a whole call before its notification, in order
StepsBeforeNotify(p) ==
  StepsOf(pre[p].unconfirmedDiffs, "revert")
    \o StepsOf(cc[p].SiacoinOutputDiffs, "apply")
    \o <<[step |-> "replace", diff |-> <<>>]>>
    \o StepsOf(unconfirmedSiacoinDiffs[p], "apply")
    \o <<[step |-> "age", diff |-> <<>>]>>

InBody(p) ==
  pc[p] \in {"unwind", "confirm", "replace", "overlay", "age", "notify",
             "unlock", "panic"}

\* A whole call run on its own from the wallet fields w: the three passes,
\* the replacement and the age update, a panic ending it where it occurs
RunCall(w, c, u, debug) ==
  LET a == ApplyAll(w.keys, w.unconfirmedDiffs, 1, DiffRevert, debug)
      b == ApplyAll(a.keys, c.SiacoinOutputDiffs, 1, DiffApply, debug)
      o == ApplyAll(b.keys, u, 1, DiffApply, debug)
  IN  IF a.panic # NoPanic
      THEN [keys |-> a.keys, unconfirmedDiffs |-> w.unconfirmedDiffs,
            age |-> w.age, panic |-> a.panic]
      ELSE IF b.panic # NoPanic
      THEN [keys |-> b.keys, unconfirmedDiffs |-> w.unconfirmedDiffs,
            age |-> w.age, panic |-> b.panic]
      ELSE IF o.panic # NoPanic
      THEN [keys |-> o.keys, unconfirmedDiffs |-> u, age |-> w.age,
            panic |-> o.panic]
      ELSE [keys |-> o.keys, unconfirmedDiffs |-> u, age |-> NewAge(w.age, c),
            panic |-> NoPanic]

\* The wallet fields ks, pending, a are what the finished call r, run on its
\* own from the fields it found, leaves
LeftBy(r, ks, pending, a) ==
  LET e == RunCall(r.pre, r.cc, r.u, DEBUG) IN
  /\ ks = e.keys
  /\ pending = e.unconfirmedDiffs
  /\ a = e.age
  /\ r.panic = e.panic

\* C11: at most one call is inside its critical section and it holds the
\* lock; whenever the lock is free no call is between its steps, and the
\* ledger, pending set and age are those of running the finished calls one
\* after the other in the order they took the lock.
C11_CriticalSectionAtomic ==
  /\ \A p \in Procs : InBody(p) => mu = p
  /\ \A p, q \in Procs : (InBody(p) /\ InBody(q)) => p = q
  /\ \A p \in Procs : mu = p => InBody(p)
  /\ mu = 0 =>
       /\ Len(hist) >= 1 =>
            LeftBy(hist[Len(hist)], keys, unconfirmedDiffs, age)
       /\ Len(hist) = 2 =>
            LeftBy(hist[1], hist[2].pre.keys, hist[2].pre.unconfirmedDiffs,
                   hist[2].pre.age)

\* While one call is between its passes, having changed the ledger, a second
\* call with diffs of its own waits for the lock
C11_Witness ==
  /\ mu = 1
  /\ pc[1] = "overlay" /\ idx[1] = 2
  /\ keys # pre[1].keys
  /\ pc[2] = "lock"
  /\ Len(unconfirmedSiacoinDiffs[2]) = 2
  /\ Len(cc[2].SiacoinOutputDiffs) = 1

\* ------------------------------------------------------------ C12
Last(s) == s[Len(s)]

\* The step is an applyDiff call made by the caller
AppliedDiff(p) ==
  /\ Len(trace'[p]) = Len(trace[p]) + 1
  /\ Last(trace'[p]).step \in {"apply", "revert"}

\* C12: an applyDiff call for a diff whose address is not a key of w.keys,
\* in either direction and for either polarity of the diff, leaves w.keys as
\* it is and raises no panic; no step adds or removes a key of w.keys.
C12_UnknownAddressNoOp ==
  [][/\ DOMAIN keys' = DOMAIN keys
     /\ \A p \in Procs :
          ( /\ AppliedDiff(p)
            /\ Last(trace'[p]).diff.SiacoinOutput.UnlockHash \notin DOMAIN keys )
          => /\ keys' = keys
             /\ panicked'[p] = NoPanic
             /\ pc'[p] # "panic"]_vars

\* Two applyDiff calls for another wallet's output that has no entry: the
\* first against the diff's polarity, the second along it
C12_Witness ==
  \E p \in SeqProcs :
    /\ pc[p] = "applyDiff"
    /\ Len(trace[p]) = 2
    /\ \A k \in 1..2 : trace[p][k].diff.SiacoinOutput.UnlockHash = ForeignAddr
    /\ DirOf(trace[p][1]) # trace[p][1].diff.Direction
    /\ DirOf(trace[p][2]) = trace[p][2].diff.Direction
    /\ keys = pre[p].keys
    /\ keys[OwnAddr] = NoOutputs

\* ------------------------------------------------------------ C13
\* The step is an applyDiff call against the polarity of its diff, for an
\* address of the wallet under which the diff's output has no entry
MissingOpposite(p) ==
  /\ AppliedDiff(p)
  /\ LET e == Last(trace'[p]) IN
     /\ DirOf(e) # e.diff.Direction
     /\ e.diff.SiacoinOutput.UnlockHash \in DOMAIN keys
     /\ e.diff.ID \notin DOMAIN keys[e.diff.SiacoinOutput.UnlockHash]

\* C13: in a production build such an applyDiff call returns normally with
\* the ledger unchanged, and the enclosing call goes on to its next step.
C13_ProductionNoOpRevert ==
  [][\A p \in Procs :
       (~DEBUG /\ MissingOpposite(p)) =>
         /\ keys' = keys
         /\ panicked'[p] = NoPanic
         /\ pc'[p] # "panic"]_vars

\* ------------------------------------------------------------ C14
\* C14: in a debug build such an applyDiff call panics with the assertion,
\* leaving the ledger, the pending set, the age and the subscribers as they
\* were; and a call panics in no other way.
C14_DebugAssertionHalts ==
  [][\A p \in Procs :
       /\ (DEBUG /\ MissingOpposite(p)) =>
            /\ keys' = keys
            /\ panicked'[p] = PanicAssert
            /\ pc'[p] = "panic"
            /\ UNCHANGED <<unconfirmedDiffs, age, notified>>
       /\ (DEBUG /\ pc[p] # "panic" /\ pc'[p] = "panic") => MissingOpposite(p)]_vars

\* The assertion raised in the unwind pass, by reverting a pending create
\* whose output never got an entry
C14_Witness ==
  \E p \in Procs :
    /\ DEBUG
    /\ pc[p] = "panic"
    /\ panicked[p] = PanicAssert
    /\ Last(trace[p]).step = "revert"
    /\ Last(trace[p]).diff.Direction = DiffApply

\* The assertion raised by the first applyDiff of the confirm pass
C14_InConfirm ==
  \E p \in Procs :
    /\ DEBUG /\ pc[p] = "panic" /\ panicked[p] = PanicAssert
    /\ Last(trace[p]).step = "apply"
    /\ Len(trace[p]) = Len(pre[p].unconfirmedDiffs) + 1

\* The assertion raised in the overlay pass, after the pending set was
\* replaced
C14_InOverlay ==
  \E p \in Procs :
    /\ DEBUG /\ pc[p] = "panic" /\ panicked[p] = PanicAssert
    /\ unconfirmedDiffs = unconfirmedSiacoinDiffs[p]
    /\ Last(trace[p]).step = "apply"
    /\ Len(trace[p]) > Len(pre[p].unconfirmedDiffs) + Len(cc[p].SiacoinOutputDiffs) + 1

\* ------------------------------------------------------------ C15
\* applyDiff calls made so far by the caller's current call
ApplyDiffCalls(p) ==
  Cardinality({k \in 1..Len(trace[p]) : trace[p][k].step \in {"apply", "revert"}})

\* C15: under fair scheduling a call waiting for the lock gets it; a call
\* holding the lock reaches its return, having notified, or the panic of
\* applyDiff; either way the lock is released; and the applyDiff calls of a
\* call never exceed the lengths of the previous pending set, the confirmed
\* diffs and the new pending set together.
C15_CallsTerminate ==
  /\ \A p \in Procs : (pc[p] = "lock") ~> (mu = p)
  /\ \A p \in Procs :
       (mu = p) ~> \/ pc[p] = "unlock" /\ NotifiedInCall(p) = 1
                   \/ pc[p] = "panic"
  /\ \A p \in Procs : (mu = p) ~> (mu # p /\ pc[p] = "idle")
  /\ [](\A p \in Procs :
          mu = p =>
            ApplyDiffCalls(p) <= Len(pre[p].unconfirmedDiffs)
                                   + Len(cc[p].SiacoinOutputDiffs)
                                   + Len(unconfirmedSiacoinDiffs[p]))

\* A call with diffs in two passes is about to return, having notified,
\* while a second call with diffs of its own waits for the lock
C15_Witness ==
  /\ mu = 2
  /\ pc[2] = "unlock"
  /\ NotifiedInCall(2) = 1
  /\ ApplyDiffCalls(2) = 3
  /\ pc[1] = "lock"
  /\ Len(unconfirmedSiacoinDiffs[1]) = 2

\* ------------------------------------------------------------ C16
IsPrefix(s, t) == Len(s) <= Len(t) /\ \A k \in 1..Len(s) : s[k] = t[k]

\* The caller's current call has done the step
Done(p, step) == \E k \in 1..Len(trace[p]) : trace[p][k].step = step

\* C16: at every point of a call the steps it has done are an initial part
\* of: the reverts of the previous pending set in list order, the applies of
\* the confirmed diffs in list order, the replacement of the pending set,
\* the applies of the new pending set in list order, the age update, the
\* notification; until the replacement w.unconfirmedDiffs is the previous
\* set, and until the age update w.age is the previous age.
C16_StepsInOrder ==
  \A p \in Procs :
    mu = p =>
      /\ IsPrefix(trace[p],
                  StepsBeforeNotify(p) \o <<[step |-> "notify", diff |-> <<>>]>>)
      /\ ~Done(p, "replace") => unconfirmedDiffs = pre[p].unconfirmedDiffs
      /\ Done(p, "replace") => unconfirmedDiffs = unconfirmedSiacoinDiffs[p]
      /\ ~Done(p, "age") => age = pre[p].age

\* A call in its overlay pass after an unwind of two different diffs, a
\* confirmed diff and a first new pending diff, with a reverted block
C16_Witness ==
  \E p \in Procs :
    /\ pc[p] = "overlay" /\ idx[p] = 2
    /\ Len(pre[p].unconfirmedDiffs) = 2
    /\ pre[p].unconfirmedDiffs[1] # pre[p].unconfirmedDiffs[2]
    /\ Len(cc[p].SiacoinOutputDiffs) = 1
    /\ unconfirmedSiacoinDiffs[p][1] # unconfirmedSiacoinDiffs[p][2]
    /\ unconfirmedSiacoinDiffs[p] # pre[p].unconfirmedDiffs
    /\ cc[p].RevertedBlocks = 1
    /\ age = pre[p].age

InList(diffs, d) == \E k \in 1..Len(diffs) : diffs[k] = d

\* Create diffs for outputs of the wallet's address
CreateDiffs == {d \in OwnDiffs : d.Direction = DiffApply}

\* The previous call returned with the create diff d in its pending set and
\* d's output spendable, and the caller's call has d in its confirmed diffs
HandedOver(p, d) ==
  /\ pre[p].notified = ncalls - 1
  /\ InList(pre[p].unconfirmedDiffs, d)
  /\ LastMentionCreates(pre[p].unconfirmedDiffs, d.ID)
  /\ Spendable(pre[p].keys, OwnAddr, d.ID)
  /\ InList(cc[p].SiacoinOutputDiffs, d)

\* The caller's call and the pending set it found carry no diff for output i
CarriesNone(p, i) ==
  /\ ~Mentions(pre[p].unconfirmedDiffs, i)
  /\ ~Mentions(cc[p].SiacoinOutputDiffs, i)
  /\ ~Mentions(unconfirmedSiacoinDiffs[p], i)

\* C18 as stated: a pending create diff delivered next in the confirmed diffs
\* and not in the unconfirmed diffs leaves its output spendable.
C18_HandOverAsStated ==
  \A p \in Procs : \A d \in CreateDiffs :
    ( /\ Returning(p)
      /\ HandedOver(p, d)
      /\ ~InList(unconfirmedSiacoinDiffs[p], d) )
    => Spendable(keys, OwnAddr, d.ID)

\* C18: a pending create diff delivered next in the confirmed diffs, with no
\* later confirmed diff and no unconfirmed diff for the same output, leaves
\* the output spendable in the entry the pending diff created; and a call
\* that carries no diff for an output, on a pending set with none, leaves
\* the output's entry as it is at every step.
C18_HandOver ==
  /\ \A p \in Procs : \A d \in CreateDiffs :
       ( /\ Returning(p)
         /\ HandedOver(p, d)
         /\ LastMentionCreates(cc[p].SiacoinOutputDiffs, d.ID)
         /\ ~Mentions(unconfirmedSiacoinDiffs[p], d.ID) )
       => /\ Spendable(keys, OwnAddr, d.ID)
          /\ keys[OwnAddr][d.ID] = pre[p].keys[OwnAddr][d.ID]
          /\ ~Mentions(unconfirmedDiffs, d.ID)
  /\ \A p \in Procs : \A i \in Ids :
       (mu = p /\ CarriesNone(p, i)) =>
         /\ i \in DOMAIN keys[OwnAddr] <=> i \in DOMAIN pre[p].keys[OwnAddr]
         /\ i \in DOMAIN keys[OwnAddr] =>
              keys[OwnAddr][i] = pre[p].keys[OwnAddr][i]

\* Output 1, first seen in a pending create, is confirmed by the next call,
\* whose unconfirmed diffs are for another output
C18_Witness ==
  \E p \in Procs : \E d \in CreateDiffs :
    /\ d.ID = 1
    /\ Returning(p)
    /\ HandedOver(p, d)
    /\ ~Spendable(pre[p].base, OwnAddr, 1)
    /\ Len(unconfirmedSiacoinDiffs[p]) > 0
    /\ ~Mentions(unconfirmedSiacoinDiffs[p], 1)
    /\ Spendable(keys, OwnAddr, 1)

\* ------------------------------------------------------------ C19
\* The diff d with the opposite polarity
Opposite(d) == [d EXCEPT !.Direction = ~d.Direction]

\* The last diff of the list that names output i of the wallet's address
\* takes it away
LastMentionSpends(diffs, i) == Mentions(diffs, i) /\ ~LastMentionCreates(diffs, i)

\* The call with confirmed change c has the create diff d among its
\* confirmed diffs, no block reverted and n blocks applied
ConfirmsCreate(c, d, n) ==
  /\ InList(c.SiacoinOutputDiffs, d)
  /\ c.RevertedBlocks = 0 /\ c.AppliedBlocks = n

\* The call with confirmed change c has the opposite of d among its
\* confirmed diffs, n blocks reverted and no block applied
ConfirmsReorg(c, d, n) ==
  /\ InList(c.SiacoinOutputDiffs, Opposite(d))
  /\ c.RevertedBlocks = n /\ c.AppliedBlocks = 0

\* The call that finished last
Prev == hist[Len(hist)]

\* C19 as stated: a call whose confirmed diffs contain a create diff for i
\* with (0, n) leaves one spendable entry of age 0 and raises w.age by n; the
\* next call with the opposite diff and (n, 0) leaves the entry present and
\* unspendable and w.age as it was before the first.
C19_CreateThenReorgAsStated ==
  \A p \in Procs : \A d \in CreateDiffs : \A n \in 0..MaxBlocks :
    Returning(p) =>
      /\ ConfirmsCreate(cc[p], d, n) =>
           /\ Spendable(keys, OwnAddr, d.ID)
           /\ keys[OwnAddr][d.ID].age = 0
           /\ age = pre[p].age + n
      /\ ( /\ Len(hist) >= 1
           /\ Prev.panic = NoPanic
           /\ ConfirmsCreate(Prev.cc, d, n)
           /\ ConfirmsReorg(cc[p], d, n) )
         => /\ d.ID \in DOMAIN keys[OwnAddr]
            /\ ~Spendable(keys, OwnAddr, d.ID)
            /\ age = Prev.pre.age

\* C19: the same, for calls whose create (or opposite) diff is the last
\* confirmed diff for i and whose unconfirmed diffs carry no diff for i; and
\* any returning call whose last confirmed diff for an existing entry takes
\* it away, with no unconfirmed diff for it, leaves the entry present and
\* unspendable.
C19_CreateThenReorg ==
  \A p \in Procs : \A d \in CreateDiffs : \A n \in 0..MaxBlocks :
    (Returning(p) /\ ~Mentions(unconfirmedSiacoinDiffs[p], d.ID)) =>
      /\ ( /\ ConfirmsCreate(cc[p], d, n)
           /\ LastMentionCreates(cc[p].SiacoinOutputDiffs, d.ID) )
         => /\ Spendable(keys, OwnAddr, d.ID)
            /\ keys[OwnAddr][d.ID].id = d.ID
            /\ keys[OwnAddr][d.ID].age = 0
            /\ age = pre[p].age + n
      /\ ( /\ Len(hist) >= 1
           /\ Prev.panic = NoPanic
           /\ ConfirmsCreate(Prev.cc, d, n)
           /\ ConfirmsReorg(cc[p], d, n)
           /\ LastMentionSpends(cc[p].SiacoinOutputDiffs, d.ID) )
         => /\ d.ID \in DOMAIN keys[OwnAddr]
            /\ ~Spendable(keys, OwnAddr, d.ID)
            /\ keys[OwnAddr][d.ID].age = 0
            /\ age = Prev.pre.age
      /\ ( /\ d.ID \in DOMAIN pre[p].keys[OwnAddr]
           /\ LastMentionSpends(cc[p].SiacoinOutputDiffs, d.ID) )
         => /\ d.ID \in DOMAIN keys[OwnAddr]
            /\ ~Spendable(keys, OwnAddr, d.ID)

\* Output 1, created by a confirmed diff with one block applied, is taken
\* away by the next call with that block reverted
C19_Witness ==
  \E p \in Procs : \E d \in CreateDiffs :
    /\ d.ID = 1
    /\ Returning(p)
    /\ Len(hist) = 1
    /\ Prev.panic = NoPanic
    /\ Prev.pre.keys[OwnAddr] = NoOutputs
    /\ Prev.u = <<>>
    /\ ConfirmsCreate(Prev.cc, d, 1)
    /\ ConfirmsReorg(cc[p], d, 1)
    /\ unconfirmedSiacoinDiffs[p] = <<>>
    /\ Spendable(pre[p].keys, OwnAddr, 1)
    /\ pre[p].age = 1
    /\ ~Spendable(keys, OwnAddr, 1)
    /\ age = 0

\* ------------------------------------------------------------ C20
\* The ledger after the applyDiff calls of the steps tr, from step k on
RECURSIVE Replay(_, _, _, _)
Replay(ks, tr, k, debug) ==
  IF k > Len(tr) THEN ks
  ELSE IF tr[k].step \in {"apply", "revert"}
       THEN Replay(ApplyDiff(ks, tr[k].diff, DirOf(tr[k]), debug).keys,
                   tr, k + 1, debug)
       ELSE Replay(ks, tr, k + 1, debug)

\* C20: a call that has panicked in applyDiff has changed neither w.age nor
\* the subscribers' notifications, and the ledger holds what its applyDiff
\* calls did up to the panic; its next step releases the lock, leaving
\* ledger, pending set, age and subscribers as they are; the lock is never
\* held by a caller that is not in a call.
C20_AbortKeepsAgeAndSubscribers ==
  /\ [](\A p \in Procs :
          /\ pc[p] = "panic" =>
               /\ mu = p
               /\ panicked[p] # NoPanic
               /\ age = pre[p].age
               /\ notified = pre[p].notified
               /\ keys = Replay(pre[p].keys, trace[p], 1, DEBUG)
          /\ pc[p] = "idle" => mu # p)
  /\ [][\A p \in Procs :
          (pc[p] = "panic" /\ pc'[p] # "panic") =>
            /\ pc'[p] = "idle"
            /\ mu' = 0
            /\ UNCHANGED <<keys, unconfirmedDiffs, age, notified>>]_vars

\* A call with an applied block has panicked in its overlay pass after it
\* changed the ledger and replaced the pending set
C20_Witness ==
  \E p \in Procs :
    /\ pc[p] = "panic"
    /\ cc[p].AppliedBlocks = 1 /\ cc[p].RevertedBlocks = 0
    /\ Done(p, "replace")
    /\ keys # pre[p].keys
    /\ unconfirmedDiffs # pre[p].unconfirmedDiffs
    /\ age = pre[p].age

\* A call is running after an earlier call panicked
C20_LaterCallRuns ==
  \E p \in Procs :
    /\ mu = p
    /\ pc[p] = "notify"
    /\ ncalls = 2
    /\ pre[p].notified = 0

====
